---- MODULE Spec2Model ----
(***************************************************************************)
(* The message-feed client (message-feed.js in its two layouts, the one    *)
(* without and the one with the `creator` field) as state machines over an *)
(* abstract ledger: refreshMessageFeed, postMessage,                       *)
(* postMessageWithProgramId and createUser.                                *)
(*                                                                         *)
(* An `await` of the client is one step: the step at which the awaited     *)
(* promise settles runs the synchronous code that follows it up to the     *)
(* next `await`, the return or the throw.  An account read takes its value *)
(* from the ledger at that step.                                           *)
(***************************************************************************)
EXTENDS Integers, Sequences, FiniteSets, TLC

VARIABLES
    layout,     \* which definitions are deployed: "plain" or "creator"
    ledger,     \* the on-ledger accounts, by public key
    messages,   \* the caller's messages array (refreshMessageFeed's argument)
    pc,         \* refreshMessageFeed: "idle" | "readLast" | "readMsg"
    message,    \* refreshMessageFeed's local `message`
    started,    \* the caller has made its first refreshMessageFeed call
    cur,        \* the current (or last) refreshMessageFeed call, as called
    last,       \* how the last finished refreshMessageFeed call ended
    notified,   \* onNewMessage invocations of the current (or last) call
    reads,      \* account reads of the current (or last) call
    observed,   \* what each onNewMessage invocation of that call found
    op,         \* the composing operation (postMessage..., createUser)
    submitted,  \* transactions handed to sendAndConfirmTransaction by op
    responses,  \* getFirstMessage: what the config endpoint answers, in order
    poller,     \* getFirstMessage: where the call is, its fetches, its result
    banCall,    \* userBanned: the call, its answer, the answer before it
    sawTrue,    \* users for whom a userBanned call has returned true
    loginMethod, \* server: process.env.LOGIN_METHOD || 'local'
    phase,      \* server: "starting" | "listening" | "exited"
    meta,       \* server: what checkMessageFeed() resolves with
    users,      \* server: the registry `users`, by id
    requests,   \* server: the requests, each with its handler's position
    created,    \* server: accounts the handlers' createUser calls returned
    racers      \* refreshMessageFeed calls sharing `messages`, by caller

vars == <<layout, ledger, messages, pc, message, started, cur, last, notified,
          reads, observed, op, submitted, responses, poller, banCall, sawTrue,
          loginMethod, phase, meta, users, requests, created, racers>>

feedVars ==
    <<messages, pc, message, started, cur, last, notified, reads, observed>>
opVars == <<op, submitted>>
pollVars == <<responses, poller>>
banVars == <<banCall, sawTrue>>
srvVars == <<loginMethod, phase, meta, users, requests, created>>
coreVars == <<layout, ledger, feedVars, opVars>>

\* what the feed and the composer leave alone
restVars == <<pollVars, banVars, srvVars, racers>>

----------------------------------------------------------------------------
(* Bounds of the model. *)

\* message accounts the ledger can hold
MaxMsg == 3
\* entries the messages array can hold (binds only on a cyclic ledger)
MaxView == 4
\* characters of a posted text
MaxTextLen == 1
\* user accounts the ledger can hold
MaxUsers == 2
\* message accounts on the ledger up to which the composer alone is called
MaxPosted == 2

----------------------------------------------------------------------------
(* Public keys.  A key is a pair <<kind, n>>; `new PublicKey(0)` is the    *)
(* all-zero key and JavaScript's null is a key of its own.                 *)

\* BufferLayout.blob(32, property): the width of a public key
PublicKeySize == 32

MsgKey(i) == <<"message", i>>
UserKey(i) == <<"user", i>>
MsgKeys == {MsgKey(i) : i \in 1..MaxMsg}
UserKeys == {UserKey(i) : i \in 1..MaxUsers}
PayerKey == <<"payer", 0>>
ProgramId == <<"program", 0>>
Null == <<"null", 0>>
emptyMessage == <<"zero", 0>>
\* the configured entry point of the feed
firstMessage == MsgKey(1)

Layouts == {"plain", "creator"}

----------------------------------------------------------------------------
(* Texts and their encodings. *)

\* code points: 'a' (one UTF-8 byte) and e-acute (two UTF-8 bytes)
Chars == {97, 233}

TextsUpTo(n) == UNION {[1..k -> Chars] : k \in 0..n}
Texts == TextsUpTo(MaxTextLen)
\* the texts the feed's users post
FeedTexts == {<<>>, <<233>>}

\* Buffer.from(text): the UTF-8 bytes of a text
RECURSIVE BufferFrom(_)
BufferFrom(text) ==
    IF text = <<>> THEN <<>>
    ELSE LET c == Head(text)
             b == IF c < 128 THEN <<c>>
                  ELSE <<192 + (c \div 64), 128 + (c % 64)>>
         IN  b \o BufferFrom(Tail(text))

\* Buffer.toString('utf-8') of one- and two-byte sequences
RECURSIVE Utf8ToString(_)
Utf8ToString(bytes) ==
    IF bytes = <<>> THEN <<>>
    ELSE IF Head(bytes) < 128 \/ Len(bytes) = 1
         THEN <<Head(bytes)>> \o Utf8ToString(Tail(bytes))
         ELSE <<(Head(bytes) - 192) * 64 + (bytes[2] - 128)>>
              \o Utf8ToString(Tail(Tail(bytes)))

\* BufferLayout.cstr: the bytes up to the first NUL, or to the end
RECURSIVE CstrBytes(_)
CstrBytes(bytes) ==
    IF bytes = <<>> \/ Head(bytes) = 0 THEN <<>>
    ELSE <<Head(bytes)>> \o CstrBytes(Tail(bytes))

\* BufferLayout.cstr(...).decode
CstrDecode(bytes) == Utf8ToString(CstrBytes(bytes))

\* BufferLayout.cstr(...).getSpan for an encoded text: its bytes and the NUL
CstrSpan(text) == Len(BufferFrom(text)) + 1

----------------------------------------------------------------------------
(* Accounts. *)

NoAccount == [kind |-> "none"]

MessageAccount(space, from, bytes) ==
    [kind |-> "message", owner |-> ProgramId, space |-> space,
     next |-> emptyMessage, from |-> from, text |-> bytes]

UserAccount(creator) ==
    [kind |-> "user", owner |-> ProgramId, banned |-> 0, creator |-> creator]

AllKeys == MsgKeys \cup UserKeys

Exists(led, k) == k \in DOMAIN led /\ led[k].kind # "none"
IsMessage(led, k) == k \in DOMAIN led /\ led[k].kind = "message"
IsUser(led, k) == k \in DOMAIN led /\ led[k].kind = "user"

NumMessages(led) == Cardinality({k \in MsgKeys : IsMessage(led, k)})

\* the chain from key k: follow nextMessage for at most n accounts
RECURSIVE ChainFrom(_, _, _)
ChainFrom(led, k, n) ==
    IF n = 0 \/ ~IsMessage(led, k) THEN <<>>
    ELSE <<k>> \o ChainFrom(led, led[k].next, n - 1)

\* the on-ledger chain from the entry point
Chain(led) == ChainFrom(led, firstMessage, MaxMsg + 1)

\* the tail of the chain: the message whose nextMessage is still empty
Tail1(led) == Chain(led)[Len(Chain(led))]

\* new Account(): a key pair no account uses yet
FreshMsgKey(led) ==
    MsgKey(CHOOSE i \in 1..MaxMsg :
               /\ ~Exists(led, MsgKey(i))
               /\ \A j \in 1..(i - 1) : Exists(led, MsgKey(j)))
FreshUserKey(led) ==
    UserKey(CHOOSE i \in 1..MaxUsers :
               /\ ~Exists(led, UserKey(i))
               /\ \A j \in 1..(i - 1) : Exists(led, UserKey(j)))
HasFreshMsgKey(led) == \E k \in MsgKeys : ~Exists(led, k)
HasFreshUserKey(led) == \E k \in UserKeys : ~Exists(led, k)

----------------------------------------------------------------------------
(* refreshMessageFeed *)

\* publicKeyToName: a display name, a function of the author's key
publicKeyToName(from) == <<"name", from[2]>>

\* readMessage: the decoded account
readMessage(led, k) ==
    [nextMessage |-> led[k].next,
     from |-> led[k].from,
     programId |-> led[k].owner,
     text |-> CstrDecode(led[k].text)]

\* messages.push({publicKey, from, name, text})
Push(msgs, k, data) ==
    Append(msgs, [publicKey |-> k, from |-> data.from,
                  name |-> publicKeyToName(data.from), text |-> data.text])

\* message === null on an empty array: `return` in the creator layout; the
\* plain layout reads messages[-1].publicKey, a TypeError
OnEmptyArray(lay) == IF lay = "creator" THEN "returned" ELSE "failed"

\* message = lastMessageData.nextMessage
ResumeLastKey(lastKey, lastData) == lastKey
ResumePointer(lastKey, lastData) == lastData.nextMessage

\* message = messageData.nextMessage
StopPointer(k, data) == emptyMessage
SamePointer(k, data) == k
NextPointer(k, data) == data.nextMessage

\* onNewMessage && onNewMessage()
ObserverCalls(observer) == IF observer THEN 1 ELSE 0

\* the array onNewMessage finds: the push comes before the invocation
BeforePush(before, pushed) == before
AtObserver(before, pushed) == pushed

\* what an invocation of onNewMessage finds: the array's length and last
\* entry, and the account reads made so far
Found(msgs, n) ==
    [len |-> Len(msgs),
     last |-> IF Len(msgs) = 0 THEN Null ELSE msgs[Len(msgs)].publicKey,
     reads |-> n]

Finish(outcome, c) ==
    /\ pc' = "idle"
    /\ last' = [outcome |-> outcome, omitted |-> c.omitted,
                posted |-> NumMessages(ledger)]

\* message.equals(emptyMessage): return, or go on to read the account
Continue(m, c) ==
    IF m = emptyMessage
    THEN Finish("returned", c) /\ message' = m
    ELSE pc' = "readMsg" /\ message' = m /\ last' = last

\* the call, up to its first await
RefreshCall ==
    /\ pc = "idle"
    /\ \E observer \in BOOLEAN :
          LET start == IF started THEN Null ELSE firstMessage
              c == [omitted |-> start = Null, observer |-> observer,
                    atCall |-> messages, posted |-> NumMessages(ledger),
                    prev |-> last]
          IN
          /\ started' = TRUE
          /\ cur' = c
          /\ notified' = 0
          /\ reads' = 0
          /\ observed' = <<>>
          /\ messages' = messages
          /\ IF start = Null
             THEN IF Len(messages) = 0
                  THEN Finish(OnEmptyArray(layout), c) /\ message' = Null
                  ELSE pc' = "readLast" /\ message' = Null /\ last' = last
             ELSE Continue(start, c)
    /\ UNCHANGED <<restVars, layout, ledger, opVars>>

\* await readMessage(connection, lastMessage) resolves
ReadLastDone ==
    /\ pc = "readLast"
    /\ LET lastMessage == messages[Len(messages)].publicKey IN
       /\ IsMessage(ledger, lastMessage)
       /\ Continue(ResumePointer(lastMessage, readMessage(ledger, lastMessage)),
                   cur)
    /\ reads' = reads + 1
    /\ UNCHANGED <<restVars, layout, ledger, messages, started, cur, notified,
                   observed, opVars>>

\* await readMessage(connection, message) resolves
ReadMsgDone ==
    /\ pc = "readMsg"
    /\ IsMessage(ledger, message)
    /\ Len(messages) < MaxView
    /\ LET messageData == readMessage(ledger, message) IN
       /\ messages' = Push(messages, message, messageData)
       /\ notified' = notified + ObserverCalls(cur.observer)
       /\ observed' =
             IF ObserverCalls(cur.observer) = 1
             THEN Append(observed,
                         Found(AtObserver(messages, messages'), reads + 1))
             ELSE observed
       /\ Continue(NextPointer(message, messageData), cur)
    /\ reads' = reads + 1
    /\ UNCHANGED <<restVars, layout, ledger, started, cur, opVars>>

\* an awaited readMessage rejects: the connection fails, or no message
\* account is at the key
ReadFail ==
    /\ pc \in {"readLast", "readMsg"}
    /\ Finish("failed", cur)
    /\ UNCHANGED <<restVars, layout, ledger, messages, message, started, cur,
                   notified, reads, observed, opVars>>

----------------------------------------------------------------------------
(* Transactions: what postMessageWithProgramId and createUser compose. *)

SystemProgramId == <<"system", 0>>

Key(pubkey, isSigner) == [pubkey |-> pubkey, isSigner |-> isSigner]

NoData == [op |-> "none"]
TextData(bytes) == [op |-> "text", bytes |-> bytes]

\* SystemProgram.createAccount(from, newAccount, lamports, space, programId)
createAccount(from, newAccount, lamports, space, programId) ==
    [programId |-> SystemProgramId,
     keys |-> <<Key(from, TRUE), Key(newAccount, FALSE)>>,
     data |-> [op |-> "createAccount", lamports |-> lamports,
               space |-> space, owner |-> programId]]

\* the pointer fields before the text: nextMessage, from and, in the creator
\* layout, creator
FixedFields(lay) == IF lay = "creator" THEN 3 ELSE 2

\* the space asked for the message account
MessageSpace(lay, textBuffer) ==
    FixedFields(lay) * PublicKeySize + Len(textBuffer)

\* messageAccountDataLayout: the span of an encoded message
MessageLayoutSpan(lay, text) ==
    FixedFields(lay) * PublicKeySize + CstrSpan(text)

\* the space asked for a user account: banned and creator
UserSpace == 1 + PublicKeySize

\* the keys of the post instruction (creator layout)
PostKeysBanUnlinked(userKey, messageKey, prev, ban) ==
    <<Key(userKey, TRUE), Key(messageKey, TRUE)>>
    \o (IF prev # Null THEN <<Key(prev, FALSE)>> ELSE <<>>)
    \o (IF ban # Null THEN <<Key(ban, FALSE)>> ELSE <<>>)
PostKeys(userKey, messageKey, prev, ban) ==
    <<Key(userKey, TRUE), Key(messageKey, TRUE)>>
    \o (IF prev # Null
        THEN <<Key(prev, FALSE)>>
             \o (IF ban # Null THEN <<Key(ban, FALSE)>> ELSE <<>>)
        ELSE <<>>)

\* the keys of the post instruction (plain layout)
PlainPostKeys(payer, messageKey, prev) ==
    <<Key(payer, TRUE), Key(messageKey, TRUE)>>
    \o (IF prev # Null THEN <<Key(prev, FALSE)>> ELSE <<>>)

\* userAccount === null: allocate and initialize a user account
NewUserAllocOnly(payer, programId, userKey, messageKey) ==
    <<createAccount(payer, userKey, 1, UserSpace, programId)>>
NewUserInstructions(payer, programId, userKey, messageKey) ==
    <<createAccount(payer, userKey, 1, UserSpace, programId),
      [programId |-> programId,
       keys |-> <<Key(userKey, TRUE), Key(messageKey, TRUE)>>,
       data |-> NoData]>>

\* postMessageWithProgramId after funding: the transaction and its signers
ComposePost(lay, payer, programId, userArg, newUser, messageKey, text, prev, ban) ==
    LET textBuffer == BufferFrom(text)
        alloc == createAccount(payer, messageKey, 1,
                               MessageSpace(lay, textBuffer), programId)
    IN  IF lay = "creator"
        THEN LET userKey == IF userArg = Null THEN newUser ELSE userArg
                 init == IF userArg = Null
                         THEN NewUserInstructions(payer, programId, newUser,
                                                  messageKey)
                         ELSE <<>>
             IN  [instructions |->
                      <<alloc>> \o init
                      \o <<[programId |-> programId,
                            keys |-> PostKeys(userKey, messageKey, prev, ban),
                            data |-> TextData(textBuffer)]>>,
                  signers |-> <<payer, userKey, messageKey>>]
        ELSE [instructions |->
                  <<alloc,
                    [programId |-> programId,
                     keys |-> PlainPostKeys(payer, messageKey, prev),
                     data |-> TextData(textBuffer)]>>,
              signers |-> <<payer, messageKey>>]

\* createUser after funding: the transaction and its signers
CreateUserUnsigned(payer, programId, userKey, firstMessageAccount) ==
    [instructions |->
         <<createAccount(payer, userKey, 1, UserSpace, programId),
           [programId |-> programId,
            keys |-> <<Key(userKey, TRUE), Key(firstMessageAccount, TRUE)>>,
            data |-> NoData]>>,
     signers |-> <<payer, userKey>>]
ComposeCreateUser(payer, programId, userKey, firstMessageAccount) ==
    [instructions |->
         <<createAccount(payer, userKey, 1, UserSpace, programId),
           [programId |-> programId,
            keys |-> <<Key(userKey, TRUE), Key(firstMessageAccount, TRUE)>>,
            data |-> NoData]>>,
     signers |-> <<payer, userKey, firstMessageAccount>>]

NoTx == [instructions |-> <<>>, signers |-> <<>>]

----------------------------------------------------------------------------
(* The ledger's side: how a submitted transaction changes the accounts.    *)
(* All of a transaction's instructions apply, or none does.                *)

Min(a, b) == IF a < b THEN a ELSE b

InstrOK(lay, led, ins) ==
    LET k(i) == ins.keys[i].pubkey IN
    IF ins.programId = SystemProgramId
    THEN k(2) \in DOMAIN led /\ ~Exists(led, k(2))
    ELSE IF ins.data.op = "none"
    THEN k(1) \in DOMAIN led /\ led[k(1)].kind = "blank"
    ELSE /\ k(2) \in DOMAIN led /\ led[k(2)].kind = "blank"
         /\ lay = "creator" => IsUser(led, k(1))
         /\ Len(ins.keys) >= 3 =>
                IsMessage(led, k(3)) /\ led[k(3)].next = emptyMessage
         /\ Len(ins.keys) >= 4 => IsUser(led, k(4))

InstrApply(lay, led, ins) ==
    LET k(i) == ins.keys[i].pubkey IN
    IF ins.programId = SystemProgramId
    THEN [led EXCEPT ![k(2)] = [kind |-> "blank", owner |-> ins.data.owner,
                                space |-> ins.data.space]]
    ELSE IF ins.data.op = "none"
    THEN [led EXCEPT ![k(1)] = UserAccount(k(2))]
    ELSE LET room == led[k(2)].space - FixedFields(lay) * PublicKeySize
             bytes == SubSeq(ins.data.bytes, 1,
                             Min(Len(ins.data.bytes), room))
             posted == [led EXCEPT ![k(2)] =
                            MessageAccount(led[k(2)].space, k(1), bytes)]
             linked == IF Len(ins.keys) >= 3
                       THEN [posted EXCEPT ![k(3)].next = k(2)]
                       ELSE posted
         IN  IF Len(ins.keys) >= 4
             THEN [linked EXCEPT ![k(4)].banned = 1]
             ELSE linked

RECURSIVE ExecOK(_, _, _)
ExecOK(lay, led, instrs) ==
    \/ instrs = <<>>
    \/ /\ instrs # <<>>
       /\ InstrOK(lay, led, Head(instrs))
       /\ ExecOK(lay, InstrApply(lay, led, Head(instrs)), Tail(instrs))

RECURSIVE Exec(_, _, _)
Exec(lay, led, instrs) ==
    IF instrs = <<>> THEN led
    ELSE Exec(lay, InstrApply(lay, led, Head(instrs)), Tail(instrs))

----------------------------------------------------------------------------
(* postMessage, postMessageWithProgramId, createUser *)

IdleOp(fn, result, before) ==
    [pc |-> "idle", fn |-> fn, programId |-> Null, userAccount |-> Null,
     messageAccount |-> Null, text |-> <<>>, previousMessage |-> Null,
     userToBan |-> Null, firstMessageAccount |-> Null, funded |-> FALSE,
     tx |-> NoTx, result |-> result, before |-> before]

\* await newSystemAccountWithAirdrop(...): a rejection leaves the function
FundingIgnored(ok) == "sending"
AfterFunding(ok) == IF ok THEN "sending" ELSE "failed"

\* postMessage(connection, userAccount, text, previousMessage, userToBan),
\* up to its await of readMessage(connection, previousMessage)
PostMessageCall(U, T, P, B, N) ==
    /\ op.pc = "idle"
    /\ HasFreshMsgKey(ledger)
    /\ NumMessages(ledger) < N
    /\ \E u \in U \ {Null}, t \in T, p \in P \ {Null}, b \in B :
          op' = [IdleOp("postMessage", "none", ledger) EXCEPT
                     !.pc = "reading",
                     !.userAccount = IF layout = "creator" THEN u ELSE Null,
                     !.text = t,
                     !.previousMessage = p,
                     !.userToBan = IF layout = "creator" THEN b ELSE Null]
    /\ submitted' = 0
    /\ UNCHANGED <<restVars, layout, ledger, feedVars>>

\* readMessage(connection, previousMessage) resolves; new Account(); the call
\* of postMessageWithProgramId, up to its await of the funding
PostReadDone ==
    /\ op.pc = "reading"
    /\ IsMessage(ledger, op.previousMessage)
    /\ op' = [op EXCEPT
                  !.pc = "funding",
                  !.programId = readMessage(ledger, op.previousMessage).programId,
                  !.messageAccount = FreshMsgKey(ledger)]
    /\ UNCHANGED <<restVars, layout, ledger, feedVars, submitted>>

\* readMessage(connection, previousMessage) rejects
PostReadFail ==
    /\ op.pc = "reading"
    /\ op' = IdleOp(op.fn, "readFailed", op.before)
    /\ UNCHANGED <<restVars, layout, ledger, feedVars, submitted>>

\* postMessageWithProgramId(connection, programId, userAccount,
\* messageAccount, text, previousMessagePublicKey, userToBan), up to its
\* await of the funding
PostWithProgramIdCall(U, T, P, B, N) ==
    /\ op.pc = "idle"
    /\ HasFreshMsgKey(ledger)
    /\ NumMessages(ledger) < N
    /\ \E u \in U, t \in T, p \in P, b \in B :
          /\ (layout = "creator" /\ u = Null) => HasFreshUserKey(ledger)
          /\ op' = [IdleOp("postMessageWithProgramId", "none", ledger) EXCEPT
                        !.pc = "funding",
                        !.programId = ProgramId,
                        !.userAccount = IF layout = "creator" THEN u ELSE Null,
                        !.messageAccount = FreshMsgKey(ledger),
                        !.text = t,
                        !.previousMessage = p,
                        !.userToBan = IF layout = "creator" THEN b ELSE Null]
    /\ submitted' = 0
    /\ UNCHANGED <<restVars, layout, ledger, feedVars>>

\* createUser(connection, programId, firstMessageAccount), up to its await
\* of the funding
CreateUserCall ==
    /\ op.pc = "idle"
    /\ layout = "creator"
    /\ HasFreshUserKey(ledger)
    /\ op' = [IdleOp("createUser", "none", ledger) EXCEPT
                  !.pc = "funding",
                  !.programId = ProgramId,
                  !.firstMessageAccount = firstMessage]
    /\ submitted' = 0
    /\ UNCHANGED <<restVars, layout, ledger, feedVars>>

\* the transaction of the operation, composed once the payer is funded
Compose(o) ==
    IF o.fn = "createUser"
    THEN ComposeCreateUser(PayerKey, o.programId, FreshUserKey(ledger),
                           o.firstMessageAccount)
    ELSE ComposePost(layout, PayerKey, o.programId, o.userAccount,
                     IF layout = "creator" /\ o.userAccount = Null
                     THEN FreshUserKey(ledger) ELSE Null,
                     o.messageAccount, o.text, o.previousMessage, o.userToBan)

\* await newSystemAccountWithAirdrop(...) settles; when it resolves the
\* transaction is composed and handed to sendAndConfirmTransaction
FundingDone ==
    /\ op.pc = "funding"
    /\ \E ok \in BOOLEAN :
          IF AfterFunding(ok) = "sending"
          THEN /\ op' = [op EXCEPT !.pc = "sending", !.funded = ok,
                                   !.tx = Compose(op)]
               /\ submitted' = submitted + 1
          ELSE /\ op' = IdleOp(op.fn, "fundingFailed", op.before)
               /\ submitted' = submitted
    /\ UNCHANGED <<restVars, layout, ledger, feedVars>>

\* what a confirmed submission does to the caller's messages array: the
\* array is no argument of postMessage or postMessageWithProgramId, which
\* return the signature alone
OptimisticPush(msgs, o) ==
    Append(msgs, [publicKey |-> o.messageAccount, from |-> o.userAccount,
                  name |-> publicKeyToName(o.userAccount), text |-> o.text])
ViewAfterPost(msgs, o) == msgs

\* sendAndConfirmTransaction resolves: the ledger applied the transaction
Confirmed ==
    /\ op.pc = "sending"
    /\ ExecOK(layout, ledger, op.tx.instructions)
    /\ ledger' = Exec(layout, ledger, op.tx.instructions)
    /\ op' = IdleOp(op.fn, "confirmed", op.before)
    /\ messages' = ViewAfterPost(messages, op)
    /\ UNCHANGED <<restVars, layout, pc, message, started, cur, last, notified,
                   reads, observed, submitted>>

\* sendAndConfirmTransaction rejects: the transaction did not apply
Rejected ==
    /\ op.pc = "sending"
    /\ op' = IdleOp(op.fn, "rejected", op.before)
    /\ UNCHANGED <<restVars, layout, ledger, feedVars, submitted>>

\* sendAndConfirmTransaction rejects for want of a confirmation, the
\* transaction having applied
ConfirmationTimeout ==
    /\ op.pc = "sending"
    /\ ExecOK(layout, ledger, op.tx.instructions)
    /\ ledger' = Exec(layout, ledger, op.tx.instructions)
    /\ op' = IdleOp(op.fn, "timeout", op.before)
    /\ UNCHANGED <<restVars, layout, feedVars, submitted>>

----------------------------------------------------------------------------
(* The feed: one caller refreshing its array while messages are posted. *)

\* the ledger when the client starts: the feed's first message, posted by
\* the feed's first user
InitLedger(lay) ==
    [k \in AllKeys |->
        IF k = firstMessage
        THEN MessageAccount(MessageSpace(lay, <<97>>),
                            IF lay = "creator" THEN UserKey(1) ELSE PayerKey,
                            <<97>>)
        ELSE IF k = UserKey(1) /\ lay = "creator"
        THEN UserAccount(firstMessage)
        ELSE NoAccount]

NoCall == [outcome |-> "none", omitted |-> FALSE, posted |-> 0]

\* getFirstMessage not called
IdlePoller == [pc |-> "idle", fetches |-> 0, result |-> Null]

\* userBanned not called
NoAnswer == [outcome |-> "none", byte |-> 0, answer |-> FALSE]
IdleBanCall ==
    [pc |-> "idle", user |-> Null, outcome |-> "none", byte |-> 0,
     answer |-> FALSE, prev |-> NoAnswer]

\* the callers of the refreshMessageFeed calls that share one array
Callers == {1, 2}
IdleRacer ==
    [pc |-> "idle", lastMessage |-> Null, message |-> Null,
     outcome |-> "none"]

\* requests the server is followed through
MaxRequests == 3

Reqs == 1..MaxRequests
Ids == {"alice", "bob"}

\* no entry of the registry `users` at an id
Absent == <<"absent", 0>>

\* checkMessageFeed() resolving with null
NoMeta == [loaded |-> FALSE, firstMessage |-> Null, programId |-> Null]

NoResponse == [status |-> 0, body |-> <<"none", 0>>]
NoRequest ==
    [kind |-> "none", pc |-> "none", id |-> "none", meta |-> NoMeta,
     funded |-> FALSE, userAccount |-> Null, wrote |-> FALSE,
     response |-> NoResponse]

\* the server process not run
ServerOff ==
    /\ loginMethod = "local"
    /\ phase = "starting"
    /\ meta = NoMeta
    /\ users = [id \in Ids |-> Absent]
    /\ requests = [r \in Reqs |-> NoRequest]
    /\ created = 0
    /\ racers = [c \in Callers |-> IdleRacer]

\* nothing but the feed and the composer runs
RestIdle ==
    /\ responses = <<>>
    /\ poller = IdlePoller
    /\ banCall = IdleBanCall
    /\ sawTrue = {}
    /\ ServerOff

Init ==
    /\ layout \in Layouts
    /\ ledger = InitLedger(layout)
    /\ messages = <<>>
    /\ pc = "idle"
    /\ message = Null
    /\ started = FALSE
    /\ cur = [omitted |-> FALSE, observer |-> FALSE, atCall |-> <<>>,
              posted |-> 0, prev |-> NoCall]
    /\ last = NoCall
    /\ notified = 0
    /\ reads = 0
    /\ observed = <<>>
    /\ op = IdleOp("none", "none", InitLedger(layout))
    /\ submitted = 0
    /\ RestIdle

FeedUsers == {UserKey(1)}
FeedPrevs == {Null, firstMessage, Tail1(ledger)}
FeedBans == {Null}

Next ==
    \/ RefreshCall
    \/ ReadLastDone
    \/ ReadMsgDone
    \/ ReadFail
    \/ PostMessageCall(FeedUsers, FeedTexts, FeedPrevs, FeedBans, MaxMsg)
    \/ PostReadDone
    \/ PostReadFail
    \/ PostWithProgramIdCall(FeedUsers, FeedTexts, FeedPrevs, FeedBans, MaxMsg)
    \/ FundingDone
    \/ Confirmed
    \/ Rejected
    \/ ConfirmationTimeout

Spec == Init /\ [][Next]_vars

----------------------------------------------------------------------------
(* The feed on an arbitrary ledger: every message account points at any    *)
(* message account or at the empty key, cycles included.                   *)

InitCyc ==
    /\ layout \in Layouts
    /\ \E nxt \in [MsgKeys -> MsgKeys \cup {emptyMessage}] :
          ledger = [k \in AllKeys |->
                       IF k \in MsgKeys
                       THEN [MessageAccount(MessageSpace(layout, <<97>>),
                                            UserKey(1), <<97>>)
                             EXCEPT !.next = nxt[k]]
                       ELSE NoAccount]
    /\ messages = <<>>
    /\ pc = "idle"
    /\ message = Null
    /\ started = FALSE
    /\ cur = [omitted |-> FALSE, observer |-> FALSE, atCall |-> <<>>,
              posted |-> 0, prev |-> NoCall]
    /\ last = NoCall
    /\ notified = 0
    /\ reads = 0
    /\ observed = <<>>
    /\ op = IdleOp("none", "none", ledger)
    /\ submitted = 0
    /\ RestIdle

NextCyc ==
    \/ RefreshCall
    \/ ReadLastDone
    \/ ReadMsgDone
    \/ ReadFail

SpecCyc == InitCyc /\ [][NextCyc]_vars

----------------------------------------------------------------------------
(* Properties of the feed. *)

PublicKeys(msgs) == [i \in 1..Len(msgs) |-> msgs[i].publicKey]

IsPrefix(s, t) == Len(s) <= Len(t) /\ \A i \in 1..Len(s) : s[i] = t[i]

NoDuplicate(s) == \A i, j \in 1..Len(s) : i # j => s[i] # s[j]

\* C1: in every state, mid-refresh and after an aborted refresh included,
\* the public keys of the messages array are a prefix of the on-ledger chain
\* from the entry point, each key once (first call started at the entry
\* point, later calls with the start omitted, one call at a time, the chain
\* growing at its tail only).
FeedIsChainPrefix ==
    /\ IsPrefix(PublicKeys(messages), Chain(ledger))
    /\ NoDuplicate(PublicKeys(messages))

\* C1's case: a refresh in flight after an aborted one, the array holding
\* part of a longer chain
MidRefreshAfterAbort ==
    /\ pc = "readMsg"
    /\ cur.prev.outcome = "failed"
    /\ Len(messages) >= 2
    /\ Len(Chain(ledger)) > Len(messages)

\* the call in `cur` has ended and no message was posted since it began
CallOverQuietLedger ==
    /\ pc = "idle"
    /\ last.outcome = "returned"
    /\ cur.posted = last.posted
    /\ NumMessages(ledger) = last.posted

\* C2: a call over a chain that does not change, started at the entry point
\* or resumed from the last entry of a non-empty array, returns with the
\* array equal to the whole chain, the entries it was called with kept; a
\* call in flight has made no more reads than the chain has unknown
\* messages (one more when it resumes), and its pending read can resolve.
RefreshReachesTail ==
    /\ (CallOverQuietLedger /\ (~cur.omitted \/ cur.atCall # <<>>)) =>
          /\ PublicKeys(messages) = Chain(ledger)
          /\ IsPrefix(cur.atCall, messages)
          /\ notified = ObserverCalls(cur.observer)
                        * (Len(Chain(ledger)) - Len(cur.atCall))
    /\ started =>
          reads <= (IF cur.omitted THEN 1 ELSE 0)
                   + Len(Chain(ledger)) - Len(cur.atCall)
    /\ pc = "readLast" => ENABLED ReadLastDone
    /\ pc = "readMsg" => ENABLED ReadMsgDone

\* C2's case: a resumed call has returned having appended two messages
ResumedToTail ==
    /\ CallOverQuietLedger
    /\ cur.omitted
    /\ Len(cur.atCall) = 1
    /\ Len(messages) = 3

\* C3: a traversal whose pointers repeat stops with a failure: no public
\* key is appended to the array twice.
RepeatedPointerStops == NoDuplicate(PublicKeys(messages))

\* the call in `cur`, with the start omitted, has returned; the call before
\* it, with the start omitted, had returned; no message was posted from
\* that return to this one
SecondCallInARow ==
    /\ pc = "idle"
    /\ last.outcome = "returned"
    /\ last.omitted
    /\ cur.prev.outcome = "returned"
    /\ cur.prev.omitted
    /\ cur.prev.posted = last.posted

\* C4: the second of two calls in a row with the start omitted, no message
\* posted in between, leaves the array as the first left it and invokes the
\* observer zero times.
SecondRefreshIsNoOp ==
    SecondCallInARow => messages = cur.atCall /\ notified = 0

\* C4's case: the second call, given an observer, over a non-empty array
SecondRefreshOverFeed ==
    /\ SecondCallInARow
    /\ cur.observer
    /\ Len(messages) >= 2

\* C5: in both layouts a call with the start omitted and an empty array
\* returns normally at once: no read, nothing appended, no observer call.
EmptyResumeReturns ==
    (started /\ pc = "idle" /\ cur.omitted /\ cur.atCall = <<>>) =>
        /\ last.outcome = "returned"
        /\ reads = 0
        /\ messages = <<>>
        /\ notified = 0

\* C6: no step of postMessage or postMessageWithProgramId, and no change of
\* the ledger, changes the messages array; the array changes only by a
\* refreshMessageFeed step appending the message it has just read from the
\* ledger.
PostLeavesViewAlone ==
    [][/\ (op' # op \/ ledger' # ledger) => messages' = messages
       /\ messages' # messages =>
             /\ pc = "readMsg"
             /\ IsMessage(ledger, message)
             /\ messages' = Push(messages, message,
                                 readMessage(ledger, message))]_vars

\* C6's case: a post was confirmed and its message is on the chain, not yet
\* in the array
ConfirmedNotYetInView ==
    /\ op.pc = "idle"
    /\ op.result = "confirmed"
    /\ Len(messages) >= 1
    /\ Len(Chain(ledger)) > Len(messages)

----------------------------------------------------------------------------
(* The composer alone: every combination of arguments. *)

\* the accounts the call in `cur` has read before its first push: the last
\* entry's, when the start is omitted
ResumeReads == IF cur.omitted /\ Len(cur.atCall) > 0 THEN 1 ELSE 0

\* C15: with an observer, a call has invoked it once for each message it
\* appended, the i-th invocation finding the i-th appended message as the
\* array's last entry and no account read made after that message's; with
\* no observer nothing is invoked; either way the call has appended one
\* message for each account it read, its read of the last entry apart.
ObserverOncePerMessage ==
    LET appended == Len(messages) - Len(cur.atCall) IN
    started =>
        /\ notified = IF cur.observer THEN appended ELSE 0
        /\ Len(observed) = notified
        /\ \A i \in 1..Len(observed) :
              /\ observed[i].len = Len(cur.atCall) + i
              /\ observed[i].last = messages[Len(cur.atCall) + i].publicKey
              /\ observed[i].reads = ResumeReads + i
        /\ appended <= reads
        /\ reads <= appended + ResumeReads

\* C15's case: a call with an observer has appended two messages and goes
\* on to read a third
ObservedTwice ==
    /\ pc = "readMsg"
    /\ cur.observer
    /\ Len(messages) - Len(cur.atCall) = 2
    /\ notified = 2

AnyUsers == {Null} \cup UserKeys
AnyPrevs == {Null} \cup MsgKeys
AnyBans == {Null} \cup UserKeys

NextCompose ==
    \/ PostMessageCall(AnyUsers, Texts, AnyPrevs, AnyBans, MaxPosted)
    \/ PostReadDone
    \/ PostReadFail
    \/ PostWithProgramIdCall(AnyUsers, Texts, AnyPrevs, AnyBans, MaxPosted)
    \/ CreateUserCall
    \/ FundingDone
    \/ Confirmed
    \/ Rejected
    \/ ConfirmationTimeout

SpecCompose == Init /\ [][NextCompose]_vars

----------------------------------------------------------------------------
(* Properties of the composed transactions. *)

\* a transaction of postMessageWithProgramId in the creator layout is
\* composed and awaits its confirmation
PostComposed ==
    /\ layout = "creator"
    /\ op.pc = "sending"
    /\ op.fn \in {"postMessage", "postMessageWithProgramId"}

\* the post instruction: the last of the transaction
PostInstruction == op.tx.instructions[Len(op.tx.instructions)]

\* the keys of the post instruction composed for the same arguments with no
\* ban requested
NoBanKeys ==
    LET tx == Compose([op EXCEPT !.userToBan = Null])
    IN  tx.instructions[Len(tx.instructions)].keys

NonSigners(keys) == {i \in 1..Len(keys) : ~keys[i].isSigner}

\* for a message of an existing user linked to a previous one, a requested
\* ban adds to the post instruction exactly one account over the no-ban
\* case, the ban target as a non-signer
BanAddsOneAccount ==
    (op.userAccount # Null /\ op.userToBan # Null
     /\ op.previousMessage # Null) =>
        /\ PostInstruction.keys = NoBanKeys \o <<Key(op.userToBan, FALSE)>>
        /\ Cardinality(NonSigners(PostInstruction.keys))
               = Cardinality(NonSigners(NoBanKeys)) + 1

PostingUser ==
    IF op.userAccount # Null THEN op.userAccount
    ELSE op.tx.instructions[2].keys[2].pubkey

\* C8: the accounts of the post instruction are the user and the message as
\* signers, then the previous message as a non-signer iff one is given,
\* then the ban target as a non-signer iff a ban target and a previous
\* message are given; a fourth account only ever follows a previous message.
PostInstructionAccounts ==
    PostComposed =>
        /\ PostInstruction.keys =
              <<Key(PostingUser, TRUE), Key(op.messageAccount, TRUE)>>
              \o (IF op.previousMessage # Null
                  THEN <<Key(op.previousMessage, FALSE)>> ELSE <<>>)
              \o (IF op.previousMessage # Null /\ op.userToBan # Null
                  THEN <<Key(op.userToBan, FALSE)>> ELSE <<>>)
        /\ PostInstruction.data = TextData(BufferFrom(op.text))
        /\ op.previousMessage = Null => Len(PostInstruction.keys) = 2

\* C8's case: a ban requested on a message with no previous message
BanWithoutPrevious ==
    /\ PostComposed
    /\ op.previousMessage = Null
    /\ op.userToBan # Null

\* C9: the space asked for the message account is the span of the Message
\* layout for the text: the pointer fields, the text's bytes and the NUL.
AllocationIsLayoutSpan ==
    PostComposed =>
        op.tx.instructions[1].data.space = MessageLayoutSpan(layout, op.text)

\* C10: a transaction is submitted only once the funding has resolved, and
\* once per operation; an operation whose funding failed has submitted
\* nothing and left the ledger as it was when the operation was called.
FundingFailureAborts ==
    /\ submitted <= 1
    /\ op.pc \in {"reading", "funding"} => submitted = 0 /\ ledger = op.before
    /\ op.pc = "sending" => submitted = 1 /\ op.funded /\ ledger = op.before
    /\ (op.pc = "idle" /\ op.result = "fundingFailed") =>
          /\ submitted = 0
          /\ ledger = op.before
          /\ op.tx = NoTx
    /\ ledger # op.before => submitted = 1

\* C10's case: the funding of a createUser failed on a ledger that earlier
\* operations have changed
CreateUserFundingFailed ==
    /\ op.pc = "idle"
    /\ op.fn = "createUser"
    /\ op.result = "fundingFailed"
    /\ NumMessages(ledger) >= 2

----------------------------------------------------------------------------
(* getFirstMessage: the poller of the server's /config.json.               *)

\* responses the endpoint is followed through
MaxResponses == 4

\* publicKey.toString() and new PublicKey(string)
KeyString(k) == <<"base58", k>>
NewPublicKey(s) == s[2]

TheUrl == <<"url", 0>>
LoginMethods == {"local", "google"}

\* what one fetch of the endpoint gives: a rejection of fetch or of
\* response.json(), or the parsed config
FetchError == [kind |-> "error"]
LoadingConfig(lm) ==
    [kind |-> "config", loading |-> TRUE, firstMessage |-> Null,
     programId |-> Null, loginMethod |-> lm, url |-> TheUrl]
ReadyConfig(first, lm) ==
    [kind |-> "config", loading |-> FALSE, firstMessage |-> KeyString(first),
     programId |-> KeyString(ProgramId), loginMethod |-> lm, url |-> TheUrl]

Responses ==
    {FetchError, LoadingConfig("local")}
        \cup {ReadyConfig(first, "local") : first \in {MsgKey(1), MsgKey(2)}}

ResponseSeqs == UNION {[1..n -> Responses] : n \in 0..MaxResponses}

\* the object getFirstMessage returns for a config
Metadata(lay, config) ==
    IF lay = "creator"
    THEN [firstMessage |-> NewPublicKey(config.firstMessage),
          loginMethod |-> config.loginMethod,
          programId |-> NewPublicKey(config.programId),
          url |-> config.url]
    ELSE [firstMessage |-> NewPublicKey(config.firstMessage),
          loginMethod |-> "absent",
          programId |-> config.programId,
          url |-> config.url]

\* one turn of the loop on the response r: the return, or the sleep that
\* follows the log of `loading` and the catch of an error alike
AttemptUncaught(r) ==
    IF r.kind = "error" THEN "raised"
    ELSE IF ~r.loading THEN "returned" ELSE "sleeping"
AfterAttempt(r) ==
    IF r.kind = "error" THEN "sleeping"
    ELSE IF ~r.loading THEN "returned" ELSE "sleeping"

\* getFirstMessage(configUrl), up to its await of fetch
GetFirstMessageCall ==
    /\ poller.pc = "idle"
    /\ poller' = [poller EXCEPT !.pc = "fetching"]
    /\ UNCHANGED <<coreVars, banVars, srvVars, racers, responses>>

\* await fetch(configUrl) and await response.json() settle
FetchDone ==
    /\ poller.pc = "fetching"
    /\ poller.fetches < Len(responses)
    /\ LET r == responses[poller.fetches + 1] IN
          poller' = [pc |-> AfterAttempt(r),
                     fetches |-> poller.fetches + 1,
                     result |-> IF AfterAttempt(r) = "returned"
                                THEN Metadata(layout, r) ELSE Null]
    /\ UNCHANGED <<coreVars, banVars, srvVars, racers, responses>>

\* await sleep(1000) resolves
SleepDone ==
    /\ poller.pc = "sleeping"
    /\ poller' = [poller EXCEPT !.pc = "fetching"]
    /\ UNCHANGED <<coreVars, banVars, srvVars, racers, responses>>

InitPoll ==
    /\ layout \in Layouts
    /\ ledger = InitLedger(layout)
    /\ messages = <<>>
    /\ pc = "idle"
    /\ message = Null
    /\ started = FALSE
    /\ cur = [omitted |-> FALSE, observer |-> FALSE, atCall |-> <<>>,
              posted |-> 0, prev |-> NoCall]
    /\ last = NoCall
    /\ notified = 0
    /\ reads = 0
    /\ observed = <<>>
    /\ op = IdleOp("none", "none", InitLedger(layout))
    /\ submitted = 0
    /\ responses \in ResponseSeqs
    /\ poller = IdlePoller
    /\ banCall = IdleBanCall
    /\ sawTrue = {}
    /\ ServerOff

NextPoll ==
    \/ GetFirstMessageCall
    \/ FetchDone
    \/ SleepDone

\* a pending fetch settles and a timer fires
SpecPoll ==
    /\ InitPoll
    /\ [][NextPoll]_vars
    /\ WF_vars(FetchDone)
    /\ WF_vars(SleepDone)

----------------------------------------------------------------------------
(* Properties of getFirstMessage. *)

IsReady(r) == r.kind = "config" /\ ~r.loading

\* the place of the first loading:false response, 0 when there is none
FirstReady(rs) ==
    IF \E i \in 1..Len(rs) : IsReady(rs[i])
    THEN CHOOSE i \in 1..Len(rs) :
            IsReady(rs[i]) /\ \A j \in 1..(i - 1) : ~IsReady(rs[j])
    ELSE 0

PollerSafe ==
    /\ poller.pc # "raised"
    /\ FirstReady(responses) # 0 => poller.fetches <= FirstReady(responses)
    /\ poller.pc = "returned" <=>
          /\ FirstReady(responses) # 0
          /\ poller.fetches = FirstReady(responses)
    /\ poller.pc = "returned" =>
          poller.result = Metadata(layout, responses[poller.fetches])

\* C11: over any sequence of loading:true responses, errors and
\* loading:false responses, getFirstMessage never raises, has returned
\* exactly when it has fetched the first loading:false response (the k-th
\* response after exactly k fetches), returns that response's metadata, and
\* a call made where a loading:false response is to come leads to the return.
PollerReturnsOnFirstReady ==
    /\ []PollerSafe
    /\ (poller.pc # "idle" /\ FirstReady(responses) # 0)
          ~> (poller.pc = "returned")

\* C11's case: loading:true, error, loading:true, loading:false and the
\* return after four fetches
ReturnedOnFourthFetch ==
    /\ responses = <<LoadingConfig("local"), FetchError,
                     LoadingConfig("local"), ReadyConfig(MsgKey(2), "local")>>
    /\ poller.pc = "returned"
    /\ poller.fetches = 4
    /\ poller.result.firstMessage = MsgKey(2)

----------------------------------------------------------------------------
(* refreshMessageFeed when publicKeyToName throws.  The call of            *)
(* publicKeyToName is an element of the object literal handed to           *)
(* messages.push, in no try block: its throw leaves the function before    *)
(* the push.                                                               *)

\* await readMessage(connection, message) resolves and
\* publicKeyToName(messageData.from) throws
NameFail ==
    /\ pc = "readMsg"
    /\ IsMessage(ledger, message)
    /\ Len(messages) < MaxView
    /\ Finish("nameFailed", cur)
    /\ reads' = reads + 1
    /\ UNCHANGED <<restVars, layout, ledger, messages, message, started, cur,
                   notified, observed, opVars>>

NextName ==
    \/ RefreshCall
    \/ ReadLastDone
    \/ ReadMsgDone
    \/ ReadFail
    \/ NameFail

SpecName == InitCyc /\ [][NextName]_vars

\* C12: when publicKeyToName has failed for the author of a message, the
\* traversal goes on: the call does not end there, the message is in the
\* array and so are the messages after it.
NameFailureKeepsTraversal ==
    last.outcome = "nameFailed" =>
        /\ \E i \in 1..Len(messages) : messages[i].publicKey = message
        /\ \/ Len(messages) = MaxView
           \/ readMessage(ledger, messages[Len(messages)].publicKey).nextMessage
                 = emptyMessage

----------------------------------------------------------------------------
(* userBanned over a ledger whose user accounts are written by the         *)
(* program: a banned byte, once not zero, is not written back to zero.     *)

\* values of the u8 `banned`
BanBytes == {0, 1, 255}

\* BufferLayout.struct([u8('banned'), publicKeyLayout('creator')]).decode
DecodeUser(account) == [banned |-> account.banned, creator |-> account.creator]

\* return userAccountData.banned !== 0
BannedIsOne(userAccountData) == userAccountData.banned = 1
BannedAnswer(userAccountData) == userAccountData.banned # 0

\* userBanned(connection, user), up to its await of getAccountInfo
UserBannedCall ==
    /\ banCall.pc = "idle"
    /\ \E user \in UserKeys :
          banCall' = [pc |-> "reading", user |-> user, outcome |-> "none",
                      byte |-> 0, answer |-> FALSE,
                      prev |-> IF user = banCall.user
                                  /\ banCall.outcome = "returned"
                               THEN [outcome |-> "returned",
                                     byte |-> banCall.byte,
                                     answer |-> banCall.answer]
                               ELSE NoAnswer]
    /\ UNCHANGED <<coreVars, pollVars, srvVars, racers, sawTrue>>

\* await connection.getAccountInfo(user) resolves with the user's account
UserBannedDone ==
    /\ banCall.pc = "reading"
    /\ IsUser(ledger, banCall.user)
    /\ LET userAccountData == DecodeUser(ledger[banCall.user])
           answer == BannedAnswer(userAccountData)
       IN /\ banCall' = [banCall EXCEPT !.pc = "idle",
                                        !.outcome = "returned",
                                        !.byte = userAccountData.banned,
                                        !.answer = answer]
          /\ sawTrue' = IF answer THEN sawTrue \cup {banCall.user}
                        ELSE sawTrue
    /\ UNCHANGED <<coreVars, pollVars, srvVars, racers>>

\* await connection.getAccountInfo(user) rejects, or resolves with null and
\* accountInfo.data throws
UserBannedFail ==
    /\ banCall.pc = "reading"
    /\ banCall' = [banCall EXCEPT !.pc = "idle", !.outcome = "raised"]
    /\ UNCHANGED <<coreVars, pollVars, srvVars, racers, sawTrue>>

\* the program writes the banned byte of a user account
BannedByteWritten ==
    /\ \E user \in UserKeys, b \in BanBytes :
          /\ IsUser(ledger, user)
          /\ b # ledger[user].banned
          /\ ledger[user].banned # 0 => b # 0
          /\ ledger' = [ledger EXCEPT ![user].banned = b]
    /\ UNCHANGED <<layout, feedVars, opVars, pollVars, banVars, srvVars,
                   racers>>

InitBan ==
    /\ layout = "creator"
    /\ \E present \in SUBSET UserKeys, bytes \in [UserKeys -> BanBytes] :
          ledger = [k \in AllKeys |->
                       IF k \in present
                       THEN [UserAccount(firstMessage)
                             EXCEPT !.banned = bytes[k]]
                       ELSE InitLedger(layout)[k]]
    /\ messages = <<>>
    /\ pc = "idle"
    /\ message = Null
    /\ started = FALSE
    /\ cur = [omitted |-> FALSE, observer |-> FALSE, atCall |-> <<>>,
              posted |-> 0, prev |-> NoCall]
    /\ last = NoCall
    /\ notified = 0
    /\ reads = 0
    /\ observed = <<>>
    /\ op = IdleOp("none", "none", InitLedger(layout))
    /\ submitted = 0
    /\ RestIdle

NextBan ==
    \/ UserBannedCall
    \/ UserBannedDone
    \/ UserBannedFail
    \/ BannedByteWritten

SpecBan == InitBan /\ [][NextBan]_vars

\* C13: a userBanned call that has returned answered true exactly when the
\* banned byte it read was not zero; it answered true if an earlier call for
\* the same user had answered true; and it answered as the call before it
\* did if that call was for the same user and read the same byte.
BannedAnswerIsMonotone ==
    (banCall.pc = "idle" /\ banCall.outcome = "returned") =>
        /\ banCall.answer = (banCall.byte # 0)
        /\ banCall.user \in sawTrue => banCall.answer = TRUE
        /\ (banCall.prev.outcome = "returned"
               /\ banCall.prev.byte = banCall.byte) =>
              banCall.answer = banCall.prev.answer

\* C13's case: a second call for a user answers true after the first did,
\* the byte having been rewritten in between
TrueAgainAfterRewrite ==
    /\ banCall.pc = "idle"
    /\ banCall.outcome = "returned"
    /\ banCall.prev.outcome = "returned"
    /\ banCall.prev.answer = TRUE
    /\ banCall.answer = TRUE
    /\ banCall.prev.byte = 1
    /\ banCall.byte = 255

----------------------------------------------------------------------------
(* The server (server/main.js): startup, GET /config.json, POST /login.    *)
(* A handler runs from one await to the next in one step; handlers of      *)
(* different requests interleave at their awaits.                          *)

\* values of process.env.LOGIN_METHOD || 'local'
ConfiguredMethods == LoginMethods \cup {"ldap"}

\* the switch at startup: the methods it lets through
StartupAccepts(lm) == lm \in {"local", "google"}

\* the switch of the /login handler: the methods that give an id
HandlerImplements(lm) == lm = "local"

\* the metadata checkMessageFeed() resolves with once the feed is loaded
TheMeta ==
    [loaded |-> TRUE, firstMessage |-> [publicKey |-> firstMessage],
     programId |-> ProgramId]

\* the response object of /config.json
ConfigAlwaysReady(m, lm) ==
    [kind |-> "config",
     loading |-> FALSE,
     firstMessage |-> IF m.loaded THEN KeyString(m.firstMessage.publicKey)
                      ELSE Null,
     programId |-> IF m.loaded THEN KeyString(m.programId) ELSE Null,
     loginMethod |-> lm,
     url |-> TheUrl]
ConfigResponse(m, lm) ==
    [kind |-> "config",
     loading |-> ~m.loaded,
     firstMessage |-> IF m.loaded THEN KeyString(m.firstMessage.publicKey)
                      ELSE Null,
     programId |-> IF m.loaded THEN KeyString(m.programId) ELSE Null,
     loginMethod |-> lm,
     url |-> TheUrl]

SecretKey(account) == <<"secret", account[2]>>
Hex(bytes) == <<"hex", bytes>>

Loading500 == [status |-> 500, body |-> <<"text", "Loading">>]
Duplicate500 == [status |-> 500, body |-> <<"text", "Duplicate account">>]
Ok200(body) == [status |-> 200, body |-> body]

\* id in users
NeverInUsers(reg, id) == FALSE
InUsers(reg, id) == reg[id] # Absent

\* the slot of the next request
NextSlot(r) ==
    /\ requests[r].kind = "none"
    /\ \A q \in 1..(r - 1) : requests[q].kind # "none"

\* the switch on loginMethod, app.listen(port)
Startup ==
    /\ phase = "starting"
    /\ phase' = IF StartupAccepts(loginMethod) THEN "listening" ELSE "exited"
    /\ UNCHANGED <<coreVars, pollVars, banVars, racers, loginMethod, meta, users,
                   requests, created>>

\* the controller finishes loading the feed
MetaLoaded ==
    /\ phase = "listening"
    /\ ~meta.loaded
    /\ meta' = TheMeta
    /\ UNCHANGED <<coreVars, pollVars, banVars, racers, loginMethod, phase, users,
                   requests, created>>

\* GET /config.json arrives: the handler up to its await of checkMessageFeed
ConfigArrives ==
    /\ phase = "listening"
    /\ \E r \in Reqs :
          /\ NextSlot(r)
          /\ requests' = [requests EXCEPT ![r] =
                 [NoRequest EXCEPT !.kind = "config", !.pc = "checking"]]
    /\ UNCHANGED <<coreVars, pollVars, banVars, racers, loginMethod, phase, meta,
                   users, created>>

\* await checkMessageFeed() resolves in the /config.json handler
ConfigCheckDone ==
    /\ \E r \in Reqs :
          /\ requests[r].kind = "config"
          /\ requests[r].pc = "checking"
          /\ requests' = [requests EXCEPT ![r] =
                 [@ EXCEPT !.pc = "done", !.meta = meta,
                           !.response =
                               Ok200(ConfigResponse(meta, loginMethod))]]
    /\ UNCHANGED <<coreVars, pollVars, banVars, racers, loginMethod, phase, meta,
                   users, created>>

\* POST /login arrives: the handler up to its await of checkMessageFeed
LoginArrives ==
    /\ phase = "listening"
    /\ \E r \in Reqs, id \in Ids :
          /\ NextSlot(r)
          /\ requests' = [requests EXCEPT ![r] =
                 [NoRequest EXCEPT !.kind = "login", !.pc = "checking",
                                   !.id = id]]
    /\ UNCHANGED <<coreVars, pollVars, banVars, racers, loginMethod, phase, meta,
                   users, created>>

\* await checkMessageFeed() resolves in the /login handler: 'Loading', the
\* switch on loginMethod, and for a registered id the response
LoginCheckDone ==
    /\ \E r \in Reqs :
          /\ requests[r].kind = "login"
          /\ requests[r].pc = "checking"
          /\ requests' = [requests EXCEPT ![r] =
                 IF ~meta.loaded
                 THEN [@ EXCEPT !.pc = "done", !.meta = meta,
                                !.response = Loading500]
                 ELSE IF ~HandlerImplements(loginMethod)
                 THEN [@ EXCEPT !.pc = "threw", !.meta = meta]
                 ELSE IF InUsers(users, requests[r].id)
                 THEN [@ EXCEPT !.pc = "done", !.meta = meta,
                                !.response =
                                    Ok200(Hex(users[requests[r].id]))]
                 ELSE [@ EXCEPT !.pc = "funding", !.meta = meta]]
    /\ UNCHANGED <<coreVars, pollVars, banVars, racers, loginMethod, phase, meta,
                   users, created>>

\* await newSystemAccountWithAirdrop(connection, 1000 + fee) settles
LoginFundingDone ==
    /\ \E r \in Reqs, ok \in BOOLEAN :
          /\ requests[r].pc = "funding"
          /\ requests' = [requests EXCEPT ![r] =
                 IF ok THEN [@ EXCEPT !.pc = "creating", !.funded = TRUE]
                 ELSE [@ EXCEPT !.pc = "threw"]]
    /\ UNCHANGED <<coreVars, pollVars, banVars, racers, loginMethod, phase, meta,
                   users, created>>

\* await createUser(...) resolves: the second `id in users`, the entry,
\* the response
LoginCreateDone ==
    /\ \E r \in Reqs :
          /\ requests[r].pc = "creating"
          /\ LET userAccount == <<"account", created + 1>>
                 id == requests[r].id
             IN IF InUsers(users, id)
                THEN /\ requests' = [requests EXCEPT ![r] =
                            [@ EXCEPT !.pc = "done",
                                      !.userAccount = userAccount,
                                      !.response = Duplicate500]]
                     /\ users' = users
                ELSE /\ users' = [users EXCEPT ![id] = SecretKey(userAccount)]
                     /\ requests' = [requests EXCEPT ![r] =
                            [@ EXCEPT !.pc = "done",
                                      !.userAccount = userAccount,
                                      !.wrote = TRUE,
                                      !.response = Ok200(Hex(users'[id]))]]
    /\ created' = created + 1
    /\ UNCHANGED <<coreVars, pollVars, banVars, racers, loginMethod, phase, meta>>

\* await createUser(...) rejects
LoginCreateFail ==
    /\ \E r \in Reqs :
          /\ requests[r].pc = "creating"
          /\ requests' = [requests EXCEPT ![r] = [@ EXCEPT !.pc = "threw"]]
    /\ UNCHANGED <<coreVars, pollVars, banVars, racers, loginMethod, phase, meta,
                   users, created>>

InitServer ==
    /\ layout = "creator"
    /\ ledger = InitLedger(layout)
    /\ messages = <<>>
    /\ pc = "idle"
    /\ message = Null
    /\ started = FALSE
    /\ cur = [omitted |-> FALSE, observer |-> FALSE, atCall |-> <<>>,
              posted |-> 0, prev |-> NoCall]
    /\ last = NoCall
    /\ notified = 0
    /\ reads = 0
    /\ observed = <<>>
    /\ op = IdleOp("none", "none", InitLedger(layout))
    /\ submitted = 0
    /\ responses = <<>>
    /\ poller = IdlePoller
    /\ banCall = IdleBanCall
    /\ sawTrue = {}
    /\ loginMethod \in ConfiguredMethods
    /\ phase = "starting"
    /\ meta = NoMeta
    /\ users = [id \in Ids |-> Absent]
    /\ requests = [r \in Reqs |-> NoRequest]
    /\ created = 0
    /\ racers = [c \in Callers |-> IdleRacer]

NextServer ==
    \/ Startup
    \/ MetaLoaded
    \/ ConfigArrives
    \/ ConfigCheckDone
    \/ LoginArrives
    \/ LoginCheckDone
    \/ LoginFundingDone
    \/ LoginCreateDone
    \/ LoginCreateFail

SpecServer == InitServer /\ [][NextServer]_vars

----------------------------------------------------------------------------
(* Properties of the server. *)

\* the handler of request r has gone through its switch on loginMethod
PastSwitch(r) ==
    /\ requests[r].kind = "login"
    /\ requests[r].pc # "checking"
    /\ requests[r].meta.loaded

\* C14: a login method the /login handler does not implement never gets
\* past startup: the server listens, and a /login handler reaches its
\* switch, only under a method the handler implements.
UnimplementedRejectedAtStartup ==
    /\ phase = "listening" => HandlerImplements(loginMethod)
    /\ \A r \in Reqs : PastSwitch(r) => HandlerImplements(loginMethod)

\* the /login requests for id
LoginsOf(id) == {r \in Reqs : requests[r].kind = "login" /\ requests[r].id = id}

\* request r has resumed after its await of createUser
Resumed(r) == requests[r].pc = "done" /\ requests[r].userAccount # Null

\* C16: under every interleaving of /login handlers at their awaits, an
\* entry of the registry is written by one request only and keeps that
\* request's account key, every 200 response for an id carries the key of
\* the id's entry, and a request that resumes after createUser without
\* writing the entry has found it set and answered 500 'Duplicate account'.
LoginRegistersOnce ==
    \A id \in Ids :
        /\ Cardinality({r \in LoginsOf(id) : requests[r].wrote}) <= 1
        /\ \A r \in LoginsOf(id) :
              /\ requests[r].wrote =>
                    users[id] = SecretKey(requests[r].userAccount)
              /\ requests[r].response.status = 200 =>
                    /\ InUsers(users, id)
                    /\ requests[r].response.body = Hex(users[id])
              /\ (Resumed(r) /\ ~requests[r].wrote) <=>
                    requests[r].response = Duplicate500
              /\ requests[r].response = Duplicate500 =>
                    /\ InUsers(users, id)
                    /\ users[id] # SecretKey(requests[r].userAccount)

\* C16's case: two requests for one id were both creating an account; one
\* wrote the entry, the other answered 'Duplicate account'
DuplicateAfterRace ==
    \E r, q \in Reqs :
        /\ requests[r].id = requests[q].id
        /\ requests[r].wrote
        /\ requests[r].response.status = 200
        /\ requests[q].response = Duplicate500

----------------------------------------------------------------------------
(* Two callers of refreshMessageFeed with the start omitted, on one        *)
(* messages array: their calls interleave at the awaited account reads.    *)

\* the ledger holding a chain of n messages from the entry point
ChainLedger(lay, n) ==
    [k \in AllKeys |->
        IF k \in MsgKeys /\ k[2] <= n
        THEN [MessageAccount(MessageSpace(lay, <<97>>),
                             IF lay = "creator" THEN UserKey(1) ELSE PayerKey,
                             <<97>>)
              EXCEPT !.next = IF k[2] < n THEN MsgKey(k[2] + 1)
                              ELSE emptyMessage]
        ELSE IF k = UserKey(1) /\ lay = "creator"
        THEN UserAccount(firstMessage)
        ELSE NoAccount]

\* the array a serial traversal of the first m messages leaves
ViewOf(led, m) ==
    [i \in 1..m |->
        LET data == readMessage(led, MsgKey(i)) IN
        [publicKey |-> MsgKey(i), from |-> data.from,
         name |-> publicKeyToName(data.from), text |-> data.text]]

\* where a racer goes with the pointer m
RacerAt(r, m) ==
    IF m = emptyMessage
    THEN [r EXCEPT !.pc = "idle", !.message = m, !.outcome = "returned"]
    ELSE [r EXCEPT !.pc = "readMsg", !.message = m]

\* refreshMessageFeed(connection, messages, onNewMessage), up to its first
\* await
RaceCall ==
    /\ \E c \in Callers :
          /\ racers[c].pc = "idle"
          /\ racers' = [racers EXCEPT ![c] =
                 IF Len(messages) = 0
                 THEN [IdleRacer EXCEPT !.outcome = OnEmptyArray(layout)]
                 ELSE [IdleRacer EXCEPT
                          !.pc = "readLast",
                          !.lastMessage = messages[Len(messages)].publicKey]]
    /\ UNCHANGED <<coreVars, pollVars, banVars, srvVars>>

\* await readMessage(connection, lastMessage) resolves
RaceReadLastDone ==
    /\ \E c \in Callers :
          /\ racers[c].pc = "readLast"
          /\ IsMessage(ledger, racers[c].lastMessage)
          /\ racers' = [racers EXCEPT ![c] =
                 RacerAt(@, ResumePointer(racers[c].lastMessage,
                            readMessage(ledger, racers[c].lastMessage)))]
    /\ UNCHANGED <<coreVars, pollVars, banVars, srvVars>>

\* await readMessage(connection, message) resolves
RaceReadMsgDone ==
    /\ \E c \in Callers :
          /\ racers[c].pc = "readMsg"
          /\ IsMessage(ledger, racers[c].message)
          /\ Len(messages) < MaxView
          /\ LET messageData == readMessage(ledger, racers[c].message) IN
                /\ messages' = Push(messages, racers[c].message, messageData)
                /\ racers' = [racers EXCEPT ![c] =
                       RacerAt(@, NextPointer(racers[c].message, messageData))]
    /\ UNCHANGED <<layout, ledger, pc, message, started, cur, last, notified,
                   reads, observed, opVars, pollVars, banVars, srvVars>>

\* an awaited readMessage rejects
RaceReadFail ==
    /\ \E c \in Callers :
          /\ racers[c].pc \in {"readLast", "readMsg"}
          /\ racers' = [racers EXCEPT ![c] =
                 [@ EXCEPT !.pc = "idle", !.outcome = "failed"]]
    /\ UNCHANGED <<coreVars, pollVars, banVars, srvVars>>

InitRace ==
    /\ layout \in Layouts
    /\ \E n \in 1..MaxMsg, m \in 0..MaxMsg :
          /\ m <= n
          /\ ledger = ChainLedger(layout, n)
          /\ messages = ViewOf(ChainLedger(layout, n), m)
    /\ pc = "idle"
    /\ message = Null
    /\ started = FALSE
    /\ cur = [omitted |-> FALSE, observer |-> FALSE, atCall |-> <<>>,
              posted |-> 0, prev |-> NoCall]
    /\ last = NoCall
    /\ notified = 0
    /\ reads = 0
    /\ observed = <<>>
    /\ op = IdleOp("none", "none", InitLedger(layout))
    /\ submitted = 0
    /\ RestIdle

NextRace ==
    \/ RaceCall
    \/ RaceReadLastDone
    \/ RaceReadMsgDone
    \/ RaceReadFail

SpecRace == InitRace /\ [][NextRace]_vars

\* C17: while two refreshMessageFeed calls with the start omitted run on one
\* messages array, interleaved at their account reads, the array holds no
\* public key twice.
RacingRefreshesAppendOnce ==
    Cardinality({messages[i].publicKey : i \in 1..Len(messages)})
        = Len(messages)

----------------------------------------------------------------------------
(* The signers of the composed transactions. *)

\* the accounts flagged isSigner in the program's instructions of tx; the
\* allocations are paid, and signed, by the payer
FlaggedSigners(tx) ==
    {tx.instructions[i].keys[j].pubkey :
        <<i, j>> \in {ij \in (1..Len(tx.instructions)) \X (1..4) :
                         /\ tx.instructions[ij[1]].programId # SystemProgramId
                         /\ ij[2] <= Len(tx.instructions[ij[1]].keys)
                         /\ tx.instructions[ij[1]].keys[ij[2]].isSigner}}

\* the accounts handed to sendAndConfirmTransaction after the transaction
SigningAccounts(tx) == {tx.signers[i] : i \in 1..Len(tx.signers)}

\* C18: the accounts passed to sendAndConfirmTransaction with a transaction
\* of createUser or postMessageWithProgramId are the payer of its
\* allocations and the accounts flagged isSigner in its instructions, no
\* more and no fewer.
SignersAreTheFlagged ==
    op.pc = "sending" =>
        /\ \A i \in 1..Len(op.tx.instructions) :
              op.tx.instructions[i].programId = SystemProgramId =>
                  op.tx.instructions[i].keys[1].pubkey = PayerKey
        /\ SigningAccounts(op.tx) = FlaggedSigners(op.tx) \cup {PayerKey}

\* C18's case: createUser has handed its transaction over, the first
\* message account among the signers
CreateUserSubmitted ==
    /\ op.pc = "sending"
    /\ op.fn = "createUser"
    /\ op.firstMessageAccount \in SigningAccounts(op.tx)
    /\ Cardinality(SigningAccounts(op.tx)) = 3

----------------------------------------------------------------------------
(* The server while the feed loads. *)

IsNullField(v) == v[1] = "null"

\* request r has been through its await of checkMessageFeed
Checked(r) == requests[r].kind # "none" /\ requests[r].pc # "checking"

\* C19: a /config.json response says loading:true exactly when
\* checkMessageFeed gave the handler no metadata; a loading:false response
\* carries a firstMessage and a programId that are not null; and a /login
\* handler given no metadata has answered 500 'Loading', having funded no
\* payer, created no account and written no registry entry.
LoadingIsReported ==
    \A r \in Reqs :
        /\ (Checked(r) /\ requests[r].kind = "config") =>
              LET config == requests[r].response.body IN
              /\ requests[r].response.status = 200
              /\ config.loading <=> ~requests[r].meta.loaded
              /\ ~config.loading =>
                    /\ meta.loaded
                    /\ ~IsNullField(config.firstMessage)
                    /\ ~IsNullField(config.programId)
        /\ (Checked(r) /\ requests[r].kind = "login") =>
              /\ ~requests[r].meta.loaded <=>
                    requests[r].response = Loading500
              /\ ~requests[r].meta.loaded =>
                    /\ requests[r].pc = "done"
                    /\ ~requests[r].funded
                    /\ requests[r].userAccount = Null
                    /\ ~requests[r].wrote
                    /\ ~InUsers(users, requests[r].id)
                          \/ \E q \in LoginsOf(requests[r].id) :
                                q # r /\ requests[q].wrote

\* C19's case: a /login answered 'Loading', a /config.json answered
\* loading:true and a later /config.json answered loading:false
LoadingThenReady ==
    \E r, q, p \in Reqs :
        /\ requests[r].response = Loading500
        /\ requests[q].kind = "config"
        /\ requests[q].pc = "done"
        /\ requests[q].response.body.loading
        /\ requests[p].kind = "config"
        /\ requests[p].pc = "done"
        /\ ~requests[p].response.body.loading

====
